---- MODULE Spec2Model ----
(***************************************************************************)
(* A model of page-o: the PageSelector proxy (PageSelector.js), the        *)
(* PageObject that hands PageSelectors out (PageObject.js) and the         *)
(* makeSelector / PageO proxies (PageObject2.js), over a small DOM.        *)
(***************************************************************************)
EXTENDS Integers, Sequences, FiniteSets, TLC

\* Number of elements besides document.body that exist.
MaxNodes == 3
\* Number of elements the pages of the PageSelector specifications render.
ListNodes == 2
CtlNodes == 2
\* Number of nth / nthChild calls chained on a proxy of the page object.
MaxChain == 1

\* document.body; the other elements are 1..MaxNodes.
Body == 0
Nodes == 1..MaxNodes
Elements == 0..MaxNodes

\* The indices handed to the index taking operations of a page of m elements.
Indices(m) == (0 - 1)..m

VARIABLES
  parent,    \* parent[n]: the parent element of n; parent[n] = n when n has none
  kind,      \* kind[n]: tagName and type of element n
  testid,    \* testid[n]: the data-testid / data-test attribute of element n
  value,     \* value[n]: the value property of a form control
  checked,   \* checked[n]: the checked property of a checkbox / radio
  px,        \* the proxy the test currently holds
  how,       \* the expression the test obtained px with: page[name].nth(i)...
  last,      \* what the last operation invoked on a proxy did
  page,      \* the page object the test constructed, where its state matters
  clock,     \* Date.now()
  timers,    \* the pending setTimeout callbacks: the times they are due
  promise,   \* the promise of the wait in progress
  world,     \* what the page object made outside itself: the sandbox roots
             \* and the style element in the document, the mounted components
  dnd        \* the drag and drop simulation in progress: the events
             \* dispatched, the calls of done, the pending timers

vars == <<parent, kind, testid, value, checked, px, how, last,
          page, clock, timers, promise, world, dnd>>

-----------------------------------------------------------------------------
(* JavaScript values.                                                      *)

NullV == [t |-> "null"]
UndefV == [t |-> "undefined"]
NodeV(n) == [t |-> "node", n |-> n]
BoolV(b) == [t |-> "bool", b |-> b]
StrV(s) == [t |-> "str", s |-> s]
NumV(i) == [t |-> "num", i |-> i]
ListV(l) == [t |-> "list", l |-> l]

\* ToBoolean of the values the code tests with if (...), ! and ||.
Truthy(v) ==
  CASE v.t = "null" -> FALSE
    [] v.t = "undefined" -> FALSE
    [] v.t = "bool" -> v.b
    [] v.t = "str" -> v.s # <<>>
    [] v.t = "num" -> v.i # 0
    [] OTHER -> TRUE

\* The outcome of a call: the value returned or the exception thrown, and
\* fx, the effects the call had on the way (events dispatched, properties
\* assigned, console.error diagnostics), in order.
Ret(v) == [out |-> "ret", val |-> v, fx |-> <<>>]
Throw(e) == [out |-> "throw", val |-> StrV(e), fx |-> <<>>]
\* r2 evaluated after r1: an exception of r1 ends the evaluation.
Then(r1, r2) == IF r1.out = "throw" THEN r1 ELSE [r2 EXCEPT !.fx = r1.fx \o @]

Event(type, n, payload) == [k |-> "event", type |-> type, n |-> n, v |-> payload]
SetChecked(n, v) == [k |-> "checked", type |-> "", n |-> n, v |-> v]
ConsoleError == [k |-> "console.error", type |-> "", n |-> 0, v |-> NullV]

-----------------------------------------------------------------------------
(* The DOM: a tree of elements, its queries and its default actions.       *)

Div == [tag |-> "DIV", type |-> ""]
KindList ==
  << [tag |-> "INPUT", type |-> "text"],
     [tag |-> "INPUT", type |-> "checkbox"],
     [tag |-> "INPUT", type |-> "submit"],
     [tag |-> "BUTTON", type |-> "submit"],
     [tag |-> "TEXTAREA", type |-> "textarea"],
     Div,
     [tag |-> "INPUT", type |-> "radio"],
     [tag |-> "SELECT", type |-> "select-one"],
     [tag |-> "BUTTON", type |-> "button"],
     [tag |-> "P", type |-> ""] >>

KindOf(e) == IF e = Body THEN [tag |-> "BODY", type |-> ""] ELSE kind[e]

\* The pages under test: element n of page k is of kind KindList[k + n].
Fixtures ==
  { [n \in Nodes |-> KindList[((k + n) % Len(KindList)) + 1]] :
      k \in 0..(Len(KindList) - 1) }

\* The text a text node directly inside element n holds.
OwnText(n) ==
  IF KindOf(n).tag \in {"INPUT", "SELECT", "BODY"} THEN <<>>
  ELSE IF n % 2 = 1 THEN <<" ", "t", " ">> ELSE <<"u", " ">>

\* The values of the <option>s of a SELECT.
OptionValues == { <<"x">> }
\* The strings a test assigns to a control.
Strings == { <<"x">>, <<"y">> }

\* What element.value reads after element.value = v: a SELECT selects the
\* option of that value, and none (value "") when it has no such option.
ValueAfterSet(n, v) ==
  IF KindOf(n).tag = "SELECT" /\ v.s \notin OptionValues THEN <<>> ELSE v.s

\* What element.checked reads after a click event was dispatched on it.
CheckedAfterClick(n, was) ==
  CASE KindOf(n) = [tag |-> "INPUT", type |-> "checkbox"] -> ~was
    [] KindOf(n) = [tag |-> "INPUT", type |-> "radio"] -> TRUE
    [] OTHER -> was

\* s without its i-th element
RemoveAt(s, i) == SubSeq(s, 1, i - 1) \o SubSeq(s, i + 1, Len(s))

RECURSIVE SortedSeq(_)
SortedSeq(S) ==
  IF S = {} THEN <<>>
  ELSE LET m == CHOOSE x \in S : \A y \in S : x <= y
       IN <<m>> \o SortedSeq(S \ {m})

Children(p) == { n \in Nodes : parent[n] = p /\ n # p }
ChildSeq(p) == SortedSeq(Children(p))

\* The subtree of e in document order (pre-order).
RECURSIVE Subtree(_)
RECURSIVE Forest(_)
Subtree(e) == <<e>> \o Forest(ChildSeq(e))
Forest(s) == IF s = <<>> THEN <<>> ELSE Subtree(Head(s)) \o Forest(Tail(s))
Descendants(e) == Tail(Subtree(e))

\* Is element e connected to the document?
InDocument(e) == \E i \in 1..Len(Subtree(Body)) : Subtree(Body)[i] = e

\* element.parentElement
parentElement(e) == IF e = Body \/ parent[e] = e THEN NullV ELSE NodeV(parent[e])

\* 1-based position of n among the children of its parent (:nth-child).
ChildIndex(n) ==
  IF n = Body \/ parent[n] = n THEN 1
  ELSE Cardinality({ m \in Children(parent[n]) : m <= n })

\* A CSS selector: an attribute (or tag) test id, then the :nth-child(k)
\* pseudo classes appended to it, in nth.
Css(id) == [id |-> id, nth |-> <<>>]
Matches(sel, n) ==
  /\ n \in Nodes
  /\ testid[n] = sel.id
  /\ \A j \in 1..Len(sel.nth) : ChildIndex(n) = sel.nth[j]

RECURSIVE Filter(_, _)
Filter(s, sel) ==
  IF s = <<>> THEN <<>>
  ELSE IF Matches(sel, Head(s)) THEN <<Head(s)>> \o Filter(Tail(s), sel)
  ELSE Filter(Tail(s), sel)

\* root.querySelectorAll(sel): the matching descendants in document order.
querySelectorAll(root, sel) == Filter(Descendants(root), sel)
\* root.querySelector(sel): the first of them, or null.
querySelector(root, sel) ==
  LET l == querySelectorAll(root, sel)
  IN IF l = <<>> THEN NullV ELSE NodeV(l[1])

\* list[i] of a NodeList / array: undefined outside 0 .. length - 1.
At(l, i) == IF i >= 0 /\ i < Len(l) THEN NodeV(l[i + 1]) ELSE UndefV

RECURSIVE Concat(_)
Concat(ss) == IF ss = <<>> THEN <<>> ELSE Head(ss) \o Concat(Tail(ss))
\* element.textContent
textContent(e) ==
  LET s == Subtree(e) IN Concat([i \in 1..Len(s) |-> OwnText(s[i])])

\* String.prototype.trim
RECURSIVE TrimLeft(_)
TrimLeft(s) == IF s # <<>> /\ Head(s) = " " THEN TrimLeft(Tail(s)) ELSE s
RECURSIVE TrimRight(_)
TrimRight(s) ==
  IF s # <<>> /\ s[Len(s)] = " " THEN TrimRight(SubSeq(s, 1, Len(s) - 1)) ELSE s
trim(s) == TrimRight(TrimLeft(s))

-----------------------------------------------------------------------------
(* @testing-library fireEvent, as PageSelector uses it.                    *)

\* fireEvent[type](el, init): dispatches one event on el; createEvent throws
\* when el is not an element.
fireEvent(type, el, payload) ==
  IF el.t # "node"
  THEN Throw("Unable to fire event - please provide a DOM element")
  ELSE [Ret(BoolV(TRUE)) EXCEPT !.fx = <<Event(type, el.n, payload)>>]

-----------------------------------------------------------------------------
(* PageSelector: a proxy is [cls, selector, root].                         *)

PageSelector(selector, root) ==
  [cls |-> "PageSelector", selector |-> selector, root |-> root]
CssV(c) == [t |-> "css", c |-> c]
\* `${selector}` and the string querySelectorAll makes of its argument:
\* null reads as the tag selector "null".
CssOf(selector) == IF selector.t = "css" THEN selector.c ELSE Css("null")

\* get element
element(p) ==
  IF Truthy(p.selector)
  THEN IF p.root.t # "node" THEN Throw("TypeError")
       ELSE Ret(querySelector(p.root.n, p.selector.c))
  ELSE Ret(p.root)

\* get allElements
allElements(p) ==
  IF p.root.t # "node" THEN Throw("TypeError")
  ELSE Ret(ListV(querySelectorAll(p.root.n, CssOf(p.selector))))

\* elementAt(index)
elementAt(p, index) ==
  LET elements == allElements(p) IN
  IF elements.out = "throw" THEN elements
  ELSE IF Len(elements.val.l) # 0 /\ Len(elements.val.l) >= index
       THEN Ret(At(elements.val.l, index))
  ELSE IF index = 0 THEN element(p)
  ELSE [Ret(NullV) EXCEPT !.fx = <<ConsoleError>>]

nthChild_OneBased(p, index) ==
  LET c == CssOf(p.selector)
  IN Ret(PageSelector(CssV([c EXCEPT !.nth = @ \o <<index>>]), p.root))

\* nthChild(index): the proxy returned
nthChild(p, index) ==
  LET c == CssOf(p.selector)
  IN Ret(PageSelector(CssV([c EXCEPT !.nth = @ \o <<index + 1>>]), p.root))

nth_OneBased(p, index) ==
  LET elements == allElements(p) IN
  IF elements.out = "throw" THEN elements
  ELSE Ret(PageSelector(NullV, At(elements.val.l, index - 1)))

\* nth(index): the proxy returned
nth(p, index) ==
  LET elements == allElements(p) IN
  IF elements.out = "throw" THEN elements
  ELSE Ret(PageSelector(NullV, At(elements.val.l, index)))

\* get count
count(p) ==
  LET elements == allElements(p) IN
  IF elements.out = "throw" THEN elements
  ELSE Ret(NumV(Len(elements.val.l)))

\* get exists
exists(p) ==
  LET el == element(p) IN
  IF el.out = "throw" THEN el ELSE Ret(BoolV(Truthy(el.val)))

getValueForElement_InputOnly(el) ==
  IF Truthy(el)
  THEN IF KindOf(el.n).tag = "INPUT"
       THEN StrV(value[el.n])
       ELSE StrV(trim(textContent(el.n)))
  ELSE UndefV

\* getValueForElement(element)
getValueForElement(el) ==
  IF Truthy(el)
  THEN IF KindOf(el.n).tag \in {"INPUT", "TEXTAREA", "SELECT"}
       THEN StrV(value[el.n])
       ELSE StrV(trim(textContent(el.n)))
  ELSE UndefV

\* get value
getValue(p) ==
  LET el == element(p) IN
  IF el.out = "throw" THEN el ELSE Ret(getValueForElement(el.val))

\* get text
text(p) == getValue(p)

setValue_InputEvent(p, v) ==
  LET el == element(p) IN
  IF el.out = "throw" THEN el
  ELSE IF Truthy(el.val)
       THEN IF KindOf(el.val.n).tag \in {"INPUT", "TEXTAREA", "SELECT"}
            THEN Then(fireEvent("input", el.val, v), Ret(UndefV))
            ELSE [Ret(UndefV) EXCEPT !.fx = <<ConsoleError>>]
       ELSE [Ret(UndefV) EXCEPT !.fx = <<ConsoleError>>]

\* set value(v)
setValue(p, v) ==
  LET el == element(p) IN
  IF el.out = "throw" THEN el
  ELSE IF Truthy(el.val)
       THEN IF KindOf(el.val.n).tag \in {"INPUT", "TEXTAREA", "SELECT"}
            THEN Then(fireEvent("change", el.val, v), Ret(UndefV))
            ELSE [Ret(UndefV) EXCEPT !.fx = <<ConsoleError>>]
       ELSE [Ret(UndefV) EXCEPT !.fx = <<ConsoleError>>]

\* get values
values(p) ==
  LET elements == allElements(p) IN
  IF elements.out = "throw" THEN elements
  ELSE Ret(ListV([i \in 1..Len(elements.val.l) |->
                    getValueForElement(NodeV(elements.val.l[i]))]))

\* get checked
getChecked(p) ==
  LET el == element(p) IN
  IF el.out = "throw" THEN el
  ELSE IF Truthy(el.val) THEN Ret(BoolV(checked[el.val.n])) ELSE Ret(UndefV)

\* set checked(v)
setChecked(p, v) ==
  LET el == element(p) IN
  IF el.out = "throw" THEN el
  ELSE IF Truthy(el.val)
       THEN [Ret(UndefV) EXCEPT !.fx = <<SetChecked(el.val.n, v)>>]
       ELSE Ret(UndefV)

\* simulateAction(action, element, event); elementArg is UndefV when the
\* caller passes no element.
simulateAction(p, action, elementArg) ==
  LET second == IF Truthy(elementArg) THEN Ret(elementArg) ELSE element(p) IN
  IF second.out = "throw" THEN second
  ELSE IF Truthy(second.val)
       THEN Then(fireEvent(action, second.val, UndefV), Ret(BoolV(TRUE)))
       ELSE Ret(BoolV(FALSE))

\* focus()
focus(p) ==
  LET el == element(p) IN
  IF el.out = "throw" THEN el
  ELSE Then(simulateAction(p, "focus", el.val), Ret(UndefV))

\* blur()
blur(p) ==
  LET el == element(p) IN
  IF el.out = "throw" THEN el
  ELSE Then(simulateAction(p, "blur", el.val), Ret(UndefV))

clickElement_NoCheckbox(p, el) ==
  IF el.t # "node" THEN Throw("TypeError")
  ELSE LET k == KindOf(el.n) IN
    CASE k.tag = "INPUT" ->
           IF k.type # "submit"
           THEN simulateAction(p, "focus", el)
           ELSE simulateAction(p, "submit", el)
      [] OTHER -> simulateAction(p, "click", el)

\* clickElement(el)
clickElement(p, el) ==
  IF el.t # "node" THEN Throw("TypeError")
  ELSE LET k == KindOf(el.n) IN
    CASE k.tag = "INPUT" ->
           IF k.type = "checkbox" \/ k.type = "radio"
           THEN simulateAction(p, "click", el)
           ELSE IF k.type # "submit"
           THEN simulateAction(p, "focus", el)
           ELSE simulateAction(p, "submit", el)
      [] k.tag = "BUTTON" ->
           IF k.type = "submit"
           THEN simulateAction(p, "click", el)
           ELSE simulateAction(p, "click", el)
      [] OTHER -> simulateAction(p, "click", el)

\* click()
click(p) ==
  LET el == element(p) IN
  IF el.out = "throw" THEN el ELSE clickElement(p, el.val)

\* clickNth(index)
clickNth(p, index) ==
  LET elements == allElements(p) IN
  IF elements.out = "throw" THEN elements
  ELSE IF Len(elements.val.l) <= index
       THEN [Ret(UndefV) EXCEPT !.fx = <<ConsoleError>>]
       ELSE clickElement(p, At(elements.val.l, index))

\* submit()
submit(p) == simulateAction(p, "submit", UndefV)

\* pressEnter()
EnterKey == 13
pressEnter(p) ==
  LET el1 == element(p) IN
  IF el1.out = "throw" THEN el1
  ELSE Then(fireEvent("keyDown", el1.val, NumV(EnterKey)),
         Then(fireEvent("keyUp", el1.val, NumV(EnterKey)), Ret(UndefV)))

\* The style of the page under test: the component renders its even
\* elements with display: none.
Display(n) == IF n # Body /\ n % 2 = 0 THEN "none" ELSE "block"

\* window.getComputedStyle(el): a TypeError for what is no element.
getComputedStyle(el) ==
  IF el.t # "node" THEN Throw("TypeError")
  ELSE Ret([t |-> "style", display |-> Display(el.n)])

\* get visible
visible(p) ==
  LET el == element(p) IN
  IF el.out = "throw" THEN el
  ELSE LET style == getComputedStyle(el.val) IN
       IF style.out = "throw" THEN style
       ELSE LET ex == exists(p)
            IN IF ~Truthy(ex.val) THEN ex
               ELSE Ret(BoolV(style.val.display # "none"))

-----------------------------------------------------------------------------
(* PageObject2.js: makeSelector and PageO. A proxy is                      *)
(* [cls, selector, root, index].                                           *)

\* A function: a selector (root, index) => root.querySelectorAll(css)[index]
\* ("indexed") or (root) => root.querySelectorAll(css) ("list"), or a root
\* () => document.querySelector(css) ("root").
FnV(f, id) == [t |-> "fn", f |-> f, id |-> id]

\* makeSelector(selector, root = document.body, index = 0)
makeSelector(selector, root, index) ==
  [cls |-> "makeSelector", selector |-> selector, root |-> root, index |-> index]

\* A selector table: the selector values by name.
TableV(m) == [t |-> "table", m |-> m]
EmptyTable == [k \in {} |-> NullV]
\* new PageO(additionalSelectors, container), of a class that declares
\* `selectors`.
PageO(selectors, additionalSelectors, container) ==
  [cls |-> "PageO", container |-> container, selectors |-> selectors,
   additionalSelectors |-> additionalSelectors]
\* A makeSelector proxy and a PageO, as values handed in as a root.
ProxyV(p) == [t |-> "proxy", p |-> p]
PageOV(pg) == [t |-> "pageo", pg |-> pg]

\* getContainer(root): typeof of a makeSelector proxy is "function", so a
\* proxy is called, and returns the proxy of index 0.
getContainer(root) ==
  CASE root.t = "css" -> querySelector(Body, root.c)
    [] root.t = "fn" -> querySelector(Body, Css(root.id))
    [] root.t = "proxy" -> ProxyV(makeSelector(root.p.selector, root.p.root, 0))
    [] OTHER -> root

RECURSIVE s_element(_)

\* c[prop] of a PageO c, for a prop that is neither a property nor a
\* selector name of it, such as querySelectorAll: the get trap returns a
\* makeSelector proxy for [data-testid=<prop>].
PageOForward(c, prop) == makeSelector(CssV(Css(prop)), c.pg.container, 0)

\* c.querySelectorAll(css) of a container c: of an element; of a makeSelector
\* proxy, which forwards to its element; of a PageO, where it is the call of
\* the proxy PageOForward returns, which returns a proxy again.
ContainerQuery(c, css) ==
  IF c.t = "node" THEN Ret(ListV(querySelectorAll(c.n, css)))
  ELSE IF c.t = "proxy"
  THEN LET el == s_element(c.p) IN
       IF el.out = "throw" THEN el
       ELSE IF el.val.t # "node" THEN Throw("TypeError")
       ELSE Ret(ListV(querySelectorAll(el.val.n, css)))
  ELSE Ret(ProxyV(PageOForward(c, "querySelectorAll")))

\* list.length: a number on a NodeList, the number of parameters (1) on a
\* makeSelector proxy, undefined on an element that is neither a FORM nor a
\* SELECT.
LengthOf(list) ==
  IF list.t = "list" THEN NumV(Len(list.l))
  ELSE IF list.t = "proxy" THEN NumV(1)
  ELSE UndefV

\* list[index]: of a NodeList; of a makeSelector proxy, which reads its
\* element to forward the index to.
ItemOf(list, index) ==
  IF list.t = "list" THEN Ret(At(list.l, index))
  ELSE LET el == s_element(list.p) IN
       IF el.out = "throw" THEN el ELSE Ret(UndefV)

\* [all[index]] without the holes: the singleton list of the element a
\* function selected for index, the empty list when there is none.
Singleton(item) ==
  IF item.out = "throw" THEN item
  ELSE IF item.val.t = "node" THEN Ret(ListV(<<item.val.n>>))
  ELSE Ret(ListV(<<>>))

\* selector(c, index), for the function selectors of the tests, and for
\* ("single") (root, index) =>
\*   Array.from(root.querySelectorAll(css)).slice(index, index + 1).
CallSelector(selector, c, index) ==
  LET all == ContainerQuery(c, Css(selector.id)) IN
  IF all.out = "throw" \/ selector.f \notin {"indexed", "single"} THEN all
  ELSE IF selector.f = "single" /\ all.val.t = "list"
  THEN Singleton(ItemOf(all.val, index))
  ELSE ItemOf(all.val, index)

\* selectAsFunction(root, selector, index)
selectAsFunction(root, selector, index) ==
  LET c == getContainer(root) IN
  IF ~Truthy(c) THEN Throw("RootNotFound")
  ELSE LET called == CallSelector(selector, c, index) IN
       IF called.out = "throw" THEN called
       ELSE LET list == called.val
                length == LengthOf(list)
            IN IF \/ ~Truthy(list)
                  \/ (length.t = "num" /\ length.i = 0)
                  \/ (length.t = "num" /\ index > length.i - 1)
                  \/ index < 0
               THEN Throw("NotFound")
               ELSE IF length.t = "num" /\ length.i > 0
               THEN ItemOf(list, index)
               ELSE Ret(list)

\* c.parentElement.querySelector(selector) === c ? c : throw
FromParent(c, selector) ==
  LET el == IF c.t = "proxy" THEN s_element(c.p) ELSE Ret(c) IN
  IF el.out = "throw" THEN el
  ELSE IF el.val.t # "node" THEN Throw("TypeError")
  ELSE IF el.val.n # Body /\ parentElement(el.val.n) = NullV
  THEN Throw("TypeError")
  ELSE LET fromParent ==
             \* the parent of document.body is the <html> element
             IF el.val.n = Body THEN querySelector(Body, selector.c)
             ELSE querySelector(parent[el.val.n], selector.c)
       IN IF fromParent = c THEN Ret(c) ELSE Throw("NotFound")

selectAsString_First(root, selector, index) ==
  LET c == getContainer(root) IN
  IF ~Truthy(c) THEN Throw("RootNotFound")
  ELSE LET list == querySelectorAll(c.n, selector.c) IN
       IF Len(list) = 0 THEN Throw("NotFound")
       ELSE IF index > Len(list) - 1 \/ index < 0 THEN Throw("NotFound")
       ELSE Ret(At(list, 0))

\* selectAsString(root, selector, index)
selectAsString(root, selector, index) ==
  LET c == getContainer(root) IN
  IF ~Truthy(c) THEN Throw("RootNotFound")
  ELSE LET queried == ContainerQuery(c, selector.c) IN
       IF queried.out = "throw" THEN queried
       ELSE LET list == queried.val
                length == LengthOf(list)
            IN IF length.i = 0 THEN FromParent(c, selector)
               ELSE IF index > length.i - 1 \/ index < 0
               THEN Throw("NotFound")
               ELSE ItemOf(list, index)

\* get element of the makeSelector proxy
s_element(p) ==
  IF p.selector.t = "fn" THEN selectAsFunction(p.root, p.selector, p.index)
  ELSE IF p.selector.t = "css" THEN selectAsString(p.root, p.selector, p.index)
  ELSE Ret(p.selector)

\* get text of the makeSelector proxy
s_text(p) ==
  LET el == s_element(p) IN
  IF el.out = "throw" THEN el
  ELSE IF el.val.t # "node" THEN Throw("TypeError")
  ELSE Ret(StrV(trim(textContent(el.val.n))))

\* element[prop], for the properties the model reads through the proxy:
\* strings (the tag name a string of one symbol), a number (childElementCount
\* is 0 on a leaf), a method.
ElementProp(n, prop) ==
  CASE prop = "tagName" -> StrV(<<KindOf(n).tag>>)
    [] prop = "value" /\ KindOf(n).tag \in {"INPUT", "TEXTAREA", "SELECT"} ->
         StrV(value[n])
    [] prop = "childElementCount" -> NumV(Cardinality(Children(n)))
    [] prop = "click" -> FnV("method", prop)
    [] OTHER -> UndefV

\* attr.bind(element)
BoundV(attr, n) == [t |-> "bound", fn |-> attr, n |-> n]

\* The get trap of the makeSelector proxy, for a prop the proxy does not
\* define: forwarded to the element.
s_get(p, prop) ==
  LET el == s_element(p) IN
  IF el.out = "throw" THEN el
  ELSE IF el.val.t # "node" THEN Throw("TypeError")
  ELSE LET attr == ElementProp(el.val.n, prop)
       IN IF ~Truthy(attr) THEN Ret(UndefV)
          ELSE IF attr.t = "fn" THEN Ret(BoundV(attr, el.val.n))
          ELSE Ret(attr)

\* The selector table of the PageO of the tests.
PageOSelectors ==
  [str |-> CssV(Css("foo")),
   func |-> FnV("indexed", "foo"),
   list |-> FnV("list", "foo"),
   node |-> NodeV(1)]
PageONames == DOMAIN PageOSelectors \cup {"foo", "bar"}

\* The get trap of the proxy `new PageO(selectors, container)` returns, for
\* a prop that is no property of the PageO.
PageOGet(container, prop) ==
  IF prop \in DOMAIN PageOSelectors
  THEN makeSelector(PageOSelectors[prop], container, 0)
  ELSE makeSelector(CssV(Css(prop)), container, 0)

-----------------------------------------------------------------------------
(* The effects of a call on the document.                                  *)

\* The control state [value, checked] after the effects fx, from st:
\* fireEvent.change assigns the event's target.value before it dispatches,
\* a click event toggles a checkbox, `el.checked = v` assigns.
RECURSIVE ApplyFx(_, _)
ApplyFx(fx, st) ==
  IF fx = <<>> THEN st
  ELSE LET e == Head(fx)
           st1 ==
             CASE e.k = "event" /\ e.type = "change" ->
                    [st EXCEPT !.value[e.n] = ValueAfterSet(e.n, e.v)]
               [] e.k = "event" /\ e.type = "click" ->
                    [st EXCEPT !.checked[e.n] = CheckedAfterClick(e.n, @)]
               [] e.k = "checked" ->
                    [st EXCEPT !.checked[e.n] = Truthy(e.v)]
               [] OTHER -> st
       IN ApplyFx(Tail(fx), st1)

-----------------------------------------------------------------------------
(* PageObject: named access hands out a PageSelector.                      *)

\* The names a test reads on the page object.
Names == {"foo", "bar"}

\* getSelector(target, prop): the declared selector of the name.
getSelector(prop) == CssV(Css(prop))

\* getRoot(target): the page's root, document.body here.
getRoot == NodeV(Body)

\* The get trap of the PageObject proxy, for a selector name.
PageObjectGet(prop) == PageSelector(getSelector(prop), getRoot)

-----------------------------------------------------------------------------
(* The state machine.                                                      *)

NoProxy == [cls |-> "none"]
NoOp == [op |-> "none"]
Did(op, on, arg, res) == [op |-> op, on |-> on, arg |-> arg, res |-> res]
Step(op, name, i) == [op |-> op, name |-> name, i |-> i]

domVars == <<parent, kind, testid>>
ctlVars == <<value, checked>>
waitVars == <<clock, timers, promise>>
envVars == <<world, dnd>>

\* No page object whose state matters, no wait in progress.
NoPage == [cls |-> "none"]
NoPromise == [state |-> "none"]
\* The document before any render, and no drag and drop simulated.
NoWorld == [roots |-> {}, styles |-> FALSE, mounted |-> {}, made |-> 0]
NoDnd == [events |-> <<>>, done |-> 0, pending |-> <<>>]
Idle ==
  /\ page = NoPage
  /\ clock = 0
  /\ timers = <<>>
  /\ promise = NoPromise
  /\ world = NoWorld
  /\ dnd = NoDnd

\* The data-test ids of the elements of the pages of the PageSelector tests.
TestIds == [n \in Nodes |-> IF n % 3 = 0 THEN "bar" ELSE "foo"]

\* Before the first render: no element is in the document; the page under
\* test is one of kinds.
InitPage(kinds) ==
  /\ parent = [n \in Nodes |-> n]
  /\ kind \in kinds
  /\ testid = TestIds
  /\ value = [n \in Nodes |-> IF kind[n].tag = "SELECT" THEN <<"x">> ELSE <<>>]
  /\ checked = [n \in Nodes |-> FALSE]
  /\ px = NoProxy
  /\ how = <<>>
  /\ last = NoOp
  /\ Idle

\* The component under test renders element n into p ...
Insert(n, p) ==
  /\ parent[n] = n
  /\ p < n
  /\ IF p = Body THEN TRUE ELSE parent[p] # p
  /\ parent' = [parent EXCEPT ![n] = p]
  /\ last' = NoOp
  /\ UNCHANGED <<kind, testid, value, checked, px, how, page, waitVars, envVars>>

\* ... and removes element n (with its subtree) again.
Remove(n) ==
  /\ parent[n] # n
  /\ parent' = [parent EXCEPT ![n] = n]
  /\ last' = NoOp
  /\ UNCHANGED <<kind, testid, value, checked, px, how, page, waitVars, envVars>>

\* page[name]
Access(name) ==
  /\ px' = PageObjectGet(name)
  /\ how' = <<Step("get", name, 0)>>
  /\ last' = NoOp
  /\ UNCHANGED <<domVars, ctlVars, page, waitVars, envVars>>

\* A call on the held proxy that returns a proxy: px.nth(i), px.nthChild(i).
Derive(op, i, res) ==
  /\ last' = Did(op, px, NumV(i), res)
  /\ px' = IF res.out = "ret" THEN res.val ELSE px
  /\ how' = IF res.out = "ret" THEN Append(how, Step(op, "", i)) ELSE how
  /\ UNCHANGED <<domVars, ctlVars, page, waitVars, envVars>>

\* A call on the held proxy that reads or acts on the document.
Call(op, arg, res) ==
  /\ last' = Did(op, px, arg, res)
  /\ LET st == ApplyFx(res.fx, [value |-> value, checked |-> checked])
     IN value' = st.value /\ checked' = st.checked
  /\ UNCHANGED <<domVars, px, how, page, waitVars, envVars>>

Held == px.cls = "PageSelector"

Nth(m) ==
  /\ Held
  /\ Len(how) <= MaxChain
  /\ \E i \in Indices(m) : Derive("nth", i, nth(px, i))
NthChild(m) ==
  /\ Held
  /\ Len(how) <= MaxChain
  /\ \E i \in Indices(m) : Derive("nthChild", i, nthChild(px, i))
Element == Held /\ Call("element", UndefV, element(px))
Exists == Held /\ Call("exists", UndefV, exists(px))
Count == Held /\ Call("count", UndefV, count(px))
ElementAt(m) ==
  Held /\ \E i \in Indices(m) : Call("elementAt", NumV(i), elementAt(px, i))
GetValue == Held /\ Call("value", UndefV, getValue(px))
Text == Held /\ Call("text", UndefV, text(px))
Values == Held /\ Call("values", UndefV, values(px))
GetChecked == Held /\ Call("checked", UndefV, getChecked(px))
SetValue ==
  Held /\ \E s \in Strings : Call("value=", StrV(s), setValue(px, StrV(s)))
SetCheckedTo ==
  Held /\ \E b \in BOOLEAN : Call("checked=", BoolV(b), setChecked(px, BoolV(b)))
Click == Held /\ Call("click", UndefV, click(px))
ClickNth(m) ==
  Held /\ \E i \in Indices(m) : Call("clickNth", NumV(i), clickNth(px, i))
Focus == Held /\ Call("focus", UndefV, focus(px))
Blur == Held /\ Call("blur", UndefV, blur(px))
Submit == Held /\ Call("submit", UndefV, submit(px))
PressEnter == Held /\ Call("pressEnter", UndefV, pressEnter(px))

(* Spec: a page of up to ListNodes nested elements, and the PageSelector   *)
(* operations that navigate the list of matches.                           *)
ListPages == { f \in Fixtures : f[1] \in {KindList[1], KindList[2]} }
Init == InitPage(ListPages)
Next ==
  \/ \E n \in 1..ListNodes, p \in Elements : Insert(n, p)
  \/ \E n \in 1..ListNodes : Remove(n)
  \/ \E name \in Names : Access(name)
  \/ Nth(ListNodes)
  \/ NthChild(ListNodes)
  \/ Element
  \/ Exists
  \/ Count
  \/ ElementAt(ListNodes)
  \/ GetValue
  \/ Values
  \/ ClickNth(ListNodes)
Spec == Init /\ [][Next]_vars

(* SpecCtl: a page of up to CtlNodes elements of every kind, all children  *)
(* of the root, and the PageSelector operations on the first match.        *)
InitCtl == InitPage(Fixtures)
NextCtl ==
  \/ \E n \in 1..CtlNodes : Insert(n, Body)
  \/ \E n \in 1..CtlNodes : Remove(n)
  \/ \E name \in Names : Access(name)
  \/ Exists
  \/ GetValue
  \/ Text
  \/ GetChecked
  \/ SetValue
  \/ SetCheckedTo
  \/ Click
  \/ Focus
  \/ Blur
  \/ Submit
  \/ PressEnter
SpecCtl == InitCtl /\ [][NextCtl]_vars

(* SpecMS: a page of up to MaxNodes nested DIVs, and the proxies of         *)
(* makeSelector and PageO.                                                 *)
HeldS == px.cls = "makeSelector"

\* The containers a PageO is constructed with: an element, a selector
\* string, a function.
Containers ==
  {NodeV(Body), NodeV(1), CssV(Css("bar")), FnV("root", "bar")}
\* The selectors makeSelector is called with.
SelectorSpecs ==
  {CssV(Css("foo")), FnV("indexed", "foo"), FnV("list", "foo")}
    \cup {NodeV(n) : n \in Nodes}

\* makeSelector(spec)
MakeSelector(spec) ==
  /\ px' = makeSelector(spec, NodeV(Body), 0)
  /\ last' = NoOp
  /\ UNCHANGED <<domVars, ctlVars, how, page, waitVars, envVars>>

\* new PageO(selectors, container)[prop]
PageOAccess(container, prop) ==
  /\ px' = PageOGet(container, prop)
  /\ last' = NoOp
  /\ UNCHANGED <<domVars, ctlVars, how, page, waitVars, envVars>>

\* px(i)
IndexCall(i) ==
  /\ HeldS
  /\ px' = makeSelector(px.selector, px.root, i)
  /\ last' = NoOp
  /\ UNCHANGED <<domVars, ctlVars, how, page, waitVars, envVars>>

SElement == HeldS /\ Call("element", UndefV, s_element(px))
SText == HeldS /\ Call("text", UndefV, s_text(px))
SExists == HeldS /\ Call("exists", UndefV, s_get(px, "exists"))

\* The data-testid patterns of the pages: all "foo", or element 1 a "bar".
TestIdsMS ==
  { [n \in Nodes |-> "foo"],
    [n \in Nodes |-> IF n = 1 THEN "bar" ELSE "foo"] }

InitMS ==
  /\ parent = [n \in Nodes |-> n]
  /\ kind = [n \in Nodes |-> Div]
  /\ testid \in TestIdsMS
  /\ value = [n \in Nodes |-> <<>>]
  /\ checked = [n \in Nodes |-> FALSE]
  /\ px = NoProxy
  /\ how = <<>>
  /\ last = NoOp
  /\ Idle
NextMS ==
  \/ \E n \in Nodes, p \in Elements : Insert(n, p)
  \/ \E n \in Nodes : Remove(n)
  \/ \E spec \in SelectorSpecs : MakeSelector(spec)
  \/ \E c \in Containers, prop \in PageONames : PageOAccess(c, prop)
  \/ \E i \in Indices(MaxNodes) : IndexCall(i)
  \/ SElement
  \/ SText
  \/ SExists
SpecMS == InitMS /\ [][NextMS]_vars

(* The page objects with their state: PageObject (PageObject.js) and PageO *)
(* (PageObject2.js), constructed with and without selector tables.         *)

\* new PageObject(root, additionalSelectors), of a class that declares
\* `selectors` or (selectors undefined) does not.
PageObject(root, selectors, additionalSelectors) ==
  [cls |-> "PageObject", root |-> root, sandbox |-> NullV,
   selectors |-> selectors, additionalSelectors |-> additionalSelectors,
   unmount |-> UndefV]

\* The properties of a selectors object; none of null and undefined.
Keys(table) == IF table.t = "table" THEN DOMAIN table.m ELSE {}

Merge_BaseWins(a, b) ==
  [k \in Keys(a) \cup Keys(b) |-> IF k \in Keys(a) THEN a.m[k] ELSE b.m[k]]

\* { ...a, ...b }
Merge(a, b) ==
  [k \in Keys(a) \cup Keys(b) |-> IF k \in Keys(b) THEN b.m[k] ELSE a.m[k]]

\* PageObject: get allSelectors
allSelectors(target) ==
  IF Truthy(target.additionalSelectors)
  THEN TableV(Merge(target.selectors, target.additionalSelectors))
  ELSE IF Truthy(target.selectors) THEN target.selectors
  ELSE TableV(EmptyTable)

\* PageObject: get root
PageObject_root(target) ==
  IF Truthy(target.root) THEN target.root ELSE target.sandbox

\* getSelector(target, prop), of a page object with state
getSelectorIn(target, prop) ==
  IF ~Truthy(allSelectors(target)) THEN Throw("NoSelectors")
  ELSE IF prop \in Keys(allSelectors(target))
  THEN Ret(allSelectors(target).m[prop])
  ELSE Ret(CssV(Css(prop)))

\* getRoot(target), of a page object with state
getRootIn(target) ==
  IF ~Truthy(PageObject_root(target)) THEN Throw("NoRoot")
  ELSE Ret(PageObject_root(target))

\* prop in target, for the props the model reads on a page object
InTarget(target, prop) ==
  \/ prop = "selectors" /\ Truthy(target.selectors)
  \/ prop = "unmount" /\ target.cls = "PageObject" /\ Truthy(target.unmount)

\* The get trap of the PageObject proxy
PageObjectGetIn(target, prop) ==
  IF InTarget(target, prop)
  THEN Ret(IF prop = "unmount" THEN target.unmount ELSE target.selectors)
  ELSE LET sel == getSelectorIn(target, prop)
           scope == getRootIn(target)
       IN IF sel.out = "throw" THEN sel
          ELSE IF scope.out = "throw" THEN scope
          ELSE Ret(PageSelector(sel.val, scope.val))

\* PageO: get allSelectors
PageO_allSelectors(target) ==
  TableV(Merge(target.selectors, target.additionalSelectors))

PageOGetIn_Declared(target, prop) ==
  IF InTarget(target, prop) THEN Ret(target.selectors)
  ELSE IF prop \in Keys(PageO_allSelectors(target))
  THEN Ret(makeSelector(PageO_allSelectors(target).m[prop],
                        target.container, 0))
  ELSE Throw("NoSelector")

\* The get trap of the PageO proxy
PageOGetIn(target, prop) ==
  IF InTarget(target, prop) THEN Ret(target.selectors)
  ELSE IF prop \in Keys(PageO_allSelectors(target))
  THEN Ret(makeSelector(PageO_allSelectors(target).m[prop],
                        target.container, 0))
  ELSE Ret(makeSelector(CssV(Css(prop)), target.container, 0))

\* page[prop]
PageGet(target, prop) ==
  IF target.cls = "PageO" THEN PageOGetIn(target, prop)
  ELSE PageObjectGetIn(target, prop)

\* table[name] = s
Put(table, name, s) ==
  TableV([k \in Keys(table) \cup {name} |-> IF k = name THEN s ELSE table.m[k]])

\* page.selectors[name] = s: the outcome of the statement and the page after
\* it. What page.selectors yields is assigned to: the table the page has, or
\* else the PageSelector the get trap makes for the name "selectors".
assignSelector(target, name, s) ==
  LET got == PageGet(target, "selectors") IN
  IF got.out = "throw" THEN [res |-> got, page |-> target]
  ELSE IF got.val = target.selectors
  THEN [res |-> Ret(s),
        page |-> [target EXCEPT !.selectors = Put(@, name, s)]]
  ELSE [res |-> Ret(s), page |-> target]

(* SpecPO: a test constructs a page object, renders, changes its selectors *)
(* and reads named selectors from it.                                      *)

\* Number of elements the pages of SpecPO render: the sandbox / container
\* (element 1) and the elements in it.
PONodes == 2

\* The selector values and the selector tables of the page objects.
SelValues == {CssV(Css("foo")), CssV(Css("bar"))}
SelTables ==
  {TableV(m) : m \in UNION {[D -> SelValues] : D \in SUBSET Names}}
\* The tables a page object class declares as `selectors`.
ClassTables ==
  {TableV([k \in {"foo"} |-> CssV(Css("bar"))]),
   TableV([k \in Names |-> IF k = "foo" THEN CssV(Css("bar"))
                                        ELSE CssV(Css("foo"))])}
\* The containers a PageO is constructed with.
POContainers ==
  {NodeV(Body), NodeV(1), CssV(Css("root")), FnV("root", "root")}

\* page = new PageObject(root, additionalSelectors)
NewPageObject(scope, selectors, additionalSelectors) ==
  /\ page = NoPage
  /\ page' = PageObject(scope, selectors, additionalSelectors)
  /\ UNCHANGED <<domVars, ctlVars, px, how, last, waitVars, envVars>>

\* page = new PageO(additionalSelectors, container)
NewPageO(selectors, additionalSelectors, container) ==
  /\ page = NoPage
  /\ page' = PageO(selectors, additionalSelectors, container)
  /\ UNCHANGED <<domVars, ctlVars, px, how, last, waitVars, envVars>>

\* page.render(...): the sandbox (element 1) is created and appended to
\* document.body.
Render ==
  /\ page.cls = "PageObject"
  /\ parent[1] = 1
  /\ parent' = [parent EXCEPT ![1] = Body]
  /\ page' = [page EXCEPT !.sandbox = NodeV(1)]
  /\ last' = NoOp
  /\ UNCHANGED <<kind, testid, ctlVars, px, how, waitVars, envVars>>

\* page.destroySandbox()
DestroySandbox ==
  /\ page.cls = "PageObject"
  /\ parent' = [parent EXCEPT ![1] = 1]
  /\ page' = [page EXCEPT !.sandbox = NullV]
  /\ last' = NoOp
  /\ UNCHANGED <<kind, testid, ctlVars, px, how, waitVars, envVars>>

\* page.selectors[name] = s
SetSelector(name, s) ==
  /\ page # NoPage
  /\ LET done == assignSelector(page, name, s) IN
       /\ page' = done.page
       /\ last' = Did("set", NoPage, [name |-> name, s |-> s], done.res)
  /\ UNCHANGED <<domVars, ctlVars, px, how, waitVars, envVars>>

\* px = page[name]
PageAccess(name) ==
  /\ page # NoPage
  /\ LET got == PageGet(page, name) IN
       /\ last' = Did("get", page, [name |-> name], got)
       /\ px' = IF got.out = "ret" THEN got.val ELSE NoProxy
  /\ UNCHANGED <<domVars, ctlVars, how, page, waitVars, envVars>>

\* px.element
PageElement ==
  /\ px # NoProxy
  /\ last' = Did("element", px, UndefV,
                  IF px.cls = "PageSelector" THEN element(px)
                  ELSE s_element(px))
  /\ UNCHANGED <<domVars, ctlVars, px, how, page, waitVars, envVars>>

TestIdsPO == [n \in Nodes |-> IF n = 1 THEN "root" ELSE "foo"]
InitPO ==
  /\ parent = [n \in Nodes |-> n]
  /\ kind = [n \in Nodes |-> Div]
  /\ testid = TestIdsPO
  /\ value = [n \in Nodes |-> <<>>]
  /\ checked = [n \in Nodes |-> FALSE]
  /\ px = NoProxy
  /\ how = <<>>
  /\ last = NoOp
  /\ Idle
NextPO ==
  \/ \E scope \in {NullV, NodeV(Body)},
        selectors \in ClassTables \cup {UndefV},
        additionalSelectors \in SelTables \cup {UndefV} :
          NewPageObject(scope, selectors, additionalSelectors)
  \/ \E selectors \in ClassTables \cup {TableV(EmptyTable)},
        additionalSelectors \in SelTables \cup {UndefV, NullV},
        container \in POContainers :
          NewPageO(selectors, additionalSelectors, container)
  \/ Render
  \/ DestroySandbox
  \/ \E n \in 1..PONodes, p \in Elements : Insert(n, p)
  \/ \E n \in 1..PONodes : Remove(n)
  \/ \E name \in Names, s \in SelValues : SetSelector(name, s)
  \/ \E name \in Names : PageAccess(name)
  \/ PageElement
SpecPO == InitPO /\ [][NextPO]_vars

(* SpecRoot: makeSelector proxies scoped to a root of every kind: an       *)
(* element, a selector string, a function, a makeSelector proxy, a PageO.  *)
Roots ==
  {NodeV(Body), NodeV(1), CssV(Css("bar")), FnV("root", "bar"),
   ProxyV(makeSelector(CssV(Css("bar")), NodeV(Body), 0)),
   PageOV(PageO(TableV(EmptyTable), NullV, CssV(Css("bar"))))}
RootedSpecs ==
  {CssV(Css("foo")), FnV("indexed", "foo"), FnV("list", "foo")}

\* makeSelector(spec, root)
MakeSelectorIn(spec, root) ==
  /\ px' = makeSelector(spec, root, 0)
  /\ last' = NoOp
  /\ UNCHANGED <<domVars, ctlVars, how, page, waitVars, envVars>>

InitRoot == InitMS
NextRoot ==
  \/ \E n \in Nodes, p \in Elements : Insert(n, p)
  \/ \E n \in Nodes : Remove(n)
  \/ \E spec \in RootedSpecs, root \in Roots : MakeSelectorIn(spec, root)
  \/ \E i \in Indices(MaxNodes) : IndexCall(i)
  \/ SElement
SpecRoot == InitRoot /\ [][NextRoot]_vars

(* SpecFwd: the pages of SpecMS, and reads through a makeSelector proxy of  *)
(* properties the proxy does not define.                                   *)

\* The properties a test reads through the proxy.
ForwardedProps == {"tagName", "childElementCount", "click", "exists"}
PropV(prop) == [t |-> "prop", name |-> prop]

\* px[prop]
SGet(prop) == HeldS /\ Call("get", PropV(prop), s_get(px, prop))

NextFwd ==
  \/ \E n \in Nodes, p \in Elements : Insert(n, p)
  \/ \E n \in Nodes : Remove(n)
  \/ \E spec \in SelectorSpecs : MakeSelector(spec)
  \/ \E i \in Indices(MaxNodes) : IndexCall(i)
  \/ \E prop \in ForwardedProps : SGet(prop)
SpecFwd == InitMS /\ [][NextFwd]_vars

(* SpecVis: a page of up to MaxNodes nested elements, some of them         *)
(* rendered with display: none, and the visibility query.                  *)
Visible == Held /\ Call("visible", UndefV, visible(px))

NextVis ==
  \/ \E n \in Nodes, p \in Elements : Insert(n, p)
  \/ \E n \in Nodes : Remove(n)
  \/ \E name \in Names : Access(name)
  \/ Nth(MaxNodes)
  \/ Exists
  \/ Visible
SpecVis == InitPage(ListPages) /\ [][NextVis]_vars

(* SpecFn: the pages of SpecMS, and makeSelector proxies whose selector is *)
(* a function: one that returns the NodeList, one that returns the element *)
(* at the index, one that returns the element at the index in a list.      *)
FunctionSpecs ==
  {FnV("list", "foo"), FnV("indexed", "foo"), FnV("single", "foo")}

NextFn ==
  \/ \E n \in Nodes, p \in Elements : Insert(n, p)
  \/ \E n \in Nodes : Remove(n)
  \/ \E spec \in FunctionSpecs : MakeSelector(spec)
  \/ \E i \in Indices(MaxNodes) : IndexCall(i)
  \/ SElement
SpecFn == InitMS /\ [][NextFn]_vars


(* The sandbox of a PageObject. render makes a new sandbox root (a <div     *)
(* id="sandbox-root">, numbered in the order of creation) and mounts the   *)
(* component in it; world holds the sandbox roots attached to the          *)
(* document, whether the style element is in it, and the render calls      *)
(* whose component is mounted.                                             *)

\* Number of render calls of a test.
MaxRenders == 4

SandboxV(id) == [t |-> "sandbox", id |-> id]
\* The unmount of the result of the id-th render (@testing-library/react):
\* it unmounts the component that call mounted.
UnmountV(id) == [t |-> "fn", f |-> "unmount", id |-> id]

\* page.render(definition, styles): the page and the world after it
render(target, w, styles) ==
  LET id == w.made + 1 IN
  [res |-> Ret(SandboxV(id)),
   page |-> [target EXCEPT !.sandbox = SandboxV(id), !.unmount = UnmountV(id)],
   world |-> [roots |-> w.roots \cup {id},
              styles |-> w.styles \/ styles,
              mounted |-> w.mounted \cup {id},
              made |-> id]]

\* page.destroySandbox(): the style element and every sandbox root leave the
\* document, then this.unmount is read through the proxy and called when it
\* is a function, then the sandbox is forgotten.
destroySandbox(target, w) ==
  LET w1 == [w EXCEPT !.styles = FALSE, !.roots = {}]
      unmount == PageObjectGetIn(target, "unmount")
  IN IF unmount.out = "throw"
     THEN [res |-> unmount, page |-> target, world |-> w1]
     ELSE [res |-> Ret(UndefV),
           page |-> [target EXCEPT !.sandbox = NullV],
           world |-> IF "t" \in DOMAIN unmount.val /\ unmount.val.t = "fn"
                     THEN [w1 EXCEPT !.mounted = @ \ {unmount.val.id}]
                     ELSE w1]

(* SpecSB: a test constructs a PageObject, with a root element or without, *)
(* and renders and destroys its sandbox in any order.                      *)
CallRender(styles) ==
  /\ page.cls = "PageObject"
  /\ world.made < MaxRenders
  /\ LET r == render(page, world, styles) IN
       /\ page' = r.page
       /\ world' = r.world
       /\ last' = Did("render", page, BoolV(styles), r.res)
  /\ UNCHANGED <<domVars, ctlVars, px, how, waitVars, dnd>>

CallDestroySandbox ==
  /\ page.cls = "PageObject"
  /\ LET r == destroySandbox(page, world) IN
       /\ page' = r.page
       /\ world' = r.world
       /\ last' = Did("destroySandbox", page, UndefV, r.res)
  /\ UNCHANGED <<domVars, ctlVars, px, how, waitVars, dnd>>

NextSB ==
  \/ \E scope \in {NullV, NodeV(Body)}, selectors \in ClassTables \cup {UndefV} :
       NewPageObject(scope, selectors, UndefV)
  \/ \E styles \in BOOLEAN : CallRender(styles)
  \/ CallDestroySandbox
  \/ \E name \in Names : PageAccess(name)
SpecSB == InitPO /\ [][NextSB]_vars

(* The drag and drop simulations of PageObject: dropURLs, dropText and     *)
(* dropFiles. dnd holds the events dispatched on the element, the number   *)
(* of calls of done and the callbacks handed to setTimeout that have not   *)
(* run yet.                                                                *)

\* Number of drop simulations of a test.
MaxDrops == 2

\* The data dragged: dropURLs, dropText, dropFiles.
DropKinds == {"URLs", "Text", "Files"}
\* createURLDropEvent(type, ...), createTextDropEvent, createFileDropEvent
DropEvent(type, data) == [type |-> type, data |-> data]

\* done(): a TypeError when the caller passed no done.
callDone(d, hasDone) ==
  IF hasDone THEN [res |-> Ret(UndefV), dnd |-> [d EXCEPT !.done = @ + 1]]
  ELSE [res |-> Throw("TypeError"), dnd |-> d]

\* dragURLs / dragText / dragFiles(element, data, x, y, done, options)
drag(d, data, hasDone) ==
  callDone([d EXCEPT !.events = @ \o <<DropEvent("dragenter", data),
                                       DropEvent("dragover", data)>>],
           hasDone)

\* dropURLs / dropText / dropFiles(element, data, x, y, done, options)
drop(d, data, hasDone) ==
  LET dragged == drag(d, data, hasDone) IN
  IF dragged.res.out = "throw" THEN dragged
  ELSE [res |-> Ret(UndefV),
        dnd |-> [dragged.dnd EXCEPT
                   !.pending = Append(@, [fn |-> "drop", data |-> data])]]

\* The callback drop hands to setTimeout: it dispatches the drop event and
\* hands done to setTimeout(done, 60).
dropCallback(d, data) ==
  [d EXCEPT !.events = Append(@, DropEvent("drop", data)),
            !.pending = Append(@, [fn |-> "done", data |-> data])]

(* SpecDnd: a test simulates drops, with a done callback or without, and   *)
(* the timers run.                                                         *)
DndSlots == 1..(2 * MaxDrops)
Drops == {"dropURLs", "dropText", "dropFiles"}

\* page.dropURLs(element, data, x, y, done) and its siblings
Drop(data, hasDone) ==
  /\ Cardinality({k \in 1..Len(dnd.events) : dnd.events[k].type = "dragenter"})
       < MaxDrops
  /\ LET r == drop(dnd, data, hasDone) IN
       /\ dnd' = r.dnd
       /\ last' = Did("drop" \o data, NoPage, BoolV(hasDone), r.res)
  /\ UNCHANGED <<domVars, ctlVars, px, how, page, waitVars, world>>

\* The i-th pending timer of the simulation runs.
RunTimer(i) ==
  /\ i \in 1..Len(dnd.pending)
  /\ LET t == dnd.pending[i]
         d == [dnd EXCEPT !.pending = RemoveAt(@, i)]
     IN dnd' = IF t.fn = "drop" THEN dropCallback(d, t.data)
               ELSE callDone(d, TRUE).dnd
  /\ UNCHANGED <<domVars, ctlVars, px, how, last, page, waitVars, world>>

NextDnd ==
  \/ \E data \in DropKinds, hasDone \in BOOLEAN : Drop(data, hasDone)
  \/ \E i \in DndSlots : RunTimer(i)
SpecDnd == InitPO /\ [][NextDnd]_vars





-----------------------------------------------------------------------------
(* Properties of the makeSelector and PageO proxies.                       *)

\* The candidates the selector of proxy p yields under its root: the matches
\* of a CSS string or of the query of a function selector, a literal node
\* itself.
Candidates(p) ==
  IF p.selector.t = "node" THEN <<p.selector.n>>
  ELSE IF ~Truthy(getContainer(p.root)) THEN <<>>
  ELSE IF p.selector.t = "css"
  THEN querySelectorAll(getContainer(p.root).n, p.selector.c)
  ELSE querySelectorAll(getContainer(p.root).n, Css(p.selector.id))
Read(op) == last.op = op /\ last.on.cls = "makeSelector"

\* C1: reading .element of an indexed proxy whose selector yields N >= 1
\* candidates (a literal node counts as N = 1) throws the not-found error
\* whenever the index is negative or at least N.
C1_OutOfRangeThrows ==
  (/\ Read("element")
   /\ Len(Candidates(last.on)) >= 1
   /\ (last.on.index < 0 \/ last.on.index >= Len(Candidates(last.on))))
    => last.res = Throw("NotFound")

\* The path of element ids from the top of the tree of n down to n.
RECURSIVE PathTo(_)
PathTo(n) ==
  IF n = Body \/ parent[n] = n THEN <<n>> ELSE Append(PathTo(parent[n]), n)
Under(c, n) == n # c /\ \E k \in 1..Len(PathTo(n)) : PathTo(n)[k] = c
\* a precedes b in document order: a is an ancestor of b, or a comes first
\* where their paths part.
Precedes(a, b) ==
  LET pa == PathTo(a)
      pb == PathTo(b)
  IN /\ a # b
     /\ \/ Len(pa) < Len(pb) /\ SubSeq(pb, 1, Len(pa)) = pa
        \/ \E k \in 1..Len(pa) :
              /\ k <= Len(pb)
              /\ SubSeq(pa, 1, k - 1) = SubSeq(pb, 1, k - 1)
              /\ pa[k] < pb[k]
MatchSet(c, sel) == {n \in Nodes : Under(c, n) /\ Matches(sel, n)}
\* m is the i-th element of c matching sel in document order.
IsIth(c, sel, m, i) ==
  /\ m \in MatchSet(c, sel)
  /\ Cardinality({n \in MatchSet(c, sel) : Precedes(n, m)}) = i
OnCss == Read("element") /\ last.on.selector.t = "css"
           /\ Truthy(getContainer(last.on.root))
Container == getContainer(last.on.root).n

\* C2: for a CSS-string selector with N >= 1 matches under its root,
\* proxy(i).element is the i-th match in document order for 0 <= i < N, and
\* with index 0 it is root.querySelector(selector).
C2_IthInDocumentOrder ==
  (/\ OnCss
   /\ MatchSet(Container, last.on.selector.c) # {}
   /\ 0 <= last.on.index
   /\ last.on.index < Cardinality(MatchSet(Container, last.on.selector.c)))
    => /\ last.res.out = "ret"
       /\ last.res.val.t = "node"
       /\ IsIth(Container, last.on.selector.c, last.res.val.n, last.on.index)
       /\ last.on.index = 0 =>
            last.res.val = querySelector(Container, last.on.selector.c)

\* A match beyond the first was read, and an element with a greater id than
\* its own, nested in an earlier sibling, precedes it among the matches.
C2_Witness ==
  /\ OnCss
  /\ last.on.index >= 1
  /\ last.res.out = "ret"
  /\ last.res.val.t = "node"
  /\ IsIth(Container, last.on.selector.c, last.res.val.n, last.on.index)
  /\ \E n \in MatchSet(Container, last.on.selector.c) :
        Precedes(n, last.res.val.n) /\ n > last.res.val.n

\* C3: exists never throws; it is false when the selector of the proxy
\* matches nothing under its root and true when it matches an element, here
\* for the makeSelector proxies of PageO.
C3_ExistsNeverThrows ==
  Read("exists") =>
    last.res = Ret(BoolV(Len(Candidates(last.on)) > 0))

\* The element a scoping root stands for: a node itself, the first match of
\* a selector string in the document, the result of a function, the element
\* of a proxy, the element of a page object.
RootElement(root) ==
  CASE root.t = "css" -> querySelector(Body, root.c)
    [] root.t = "fn" -> querySelector(Body, Css(root.id))
    [] root.t = "proxy" ->
         IF s_element(root.p).out = "throw" THEN NullV
         ELSE s_element(root.p).val
    [] root.t = "pageo" -> getContainer(root.pg.container)
    [] OTHER -> root

\* C20: reading .element resolves the root by its kind; when the root
\* resolves to no element the read throws the root-not-found error (any
\* error, when the root is a proxy whose own element cannot be found), and
\* otherwise it gives what the selector gives within the element the root
\* resolves to.
C20_RootByKind ==
  Read("element") =>
    IF ~Truthy(RootElement(last.on.root))
    THEN IF last.on.root.t = "proxy"
         THEN last.res.out = "throw"
         ELSE last.res = Throw("RootNotFound")
    ELSE last.res = s_element(makeSelector(last.on.selector,
                                           RootElement(last.on.root),
                                           last.on.index))

-----------------------------------------------------------------------------
(* Properties of the PageSelector operations.                              *)

\* The element the proxy of the last call resolves to, when it resolves.
Resolved(p) == element(p).out = "ret" /\ element(p).val.t = "node"
Missing(p) == element(p).out = "ret" /\ element(p).val.t # "node"
Target == element(last.on).val.n
Called(op) == last.op = op

\* The events among the effects fx.
RECURSIVE EventsOf(_)
EventsOf(fx) ==
  IF fx = <<>> THEN <<>>
  ELSE IF Head(fx).k = "event" THEN <<Head(fx)>> \o EventsOf(Tail(fx))
  ELSE EventsOf(Tail(fx))

FormControls == {"INPUT", "TEXTAREA", "SELECT"}

\* The click-dispatch table: the event click() is to dispatch on an element.
ClickTable(k) ==
  CASE k.tag = "INPUT" /\ k.type \in {"checkbox", "radio"} -> "click"
    [] k.tag = "INPUT" /\ k.type = "submit" -> "submit"
    [] k.tag = "INPUT" -> "focus"
    [] OTHER -> "click"

ChangeCarrying(v) ==
  EventsOf(last.res.fx) = <<Event("change", Target, v)>>
ReadsBack(v) == getValue(last.on) = Ret(v)
OnControl ==
  Called("value=") /\ Resolved(last.on) /\ KindOf(Target).tag \in FormControls

Mutators ==
  {"value=", "checked=", "click", "focus", "blur", "submit", "pressEnter"}

\* C6: a mutating operation on a proxy whose element does not exist returns
\* without throwing and dispatches no event.
C6_MissingNoThrow ==
  (last.op \in Mutators /\ Missing(last.on)) =>
    (last.res.out = "ret" /\ EventsOf(last.res.fx) = <<>>)

\* The list of matches of the proxy of the last call.
Matched == allElements(last.on).val.l
InRange(i) == 0 <= i /\ i < Len(Matched)

\* C7: clickNth(i) never throws; outside 0 .. count - 1 it dispatches no
\* event and logs; inside it dispatches the click-table event on
\* allElements[i].
C7_ClickNthNeverThrows ==
  (Called("clickNth") /\ allElements(last.on).out = "ret") =>
    /\ last.res.out = "ret"
    /\ IF InRange(last.arg.i)
       THEN EventsOf(last.res.fx) =
              <<Event(ClickTable(KindOf(Matched[last.arg.i + 1])),
                      Matched[last.arg.i + 1], UndefV)>>
       ELSE last.res.fx = <<ConsoleError>>

\* C8: elementAt(i) returns allElements[i] inside 0 .. count - 1, the first
\* resolved element (or null) for i = 0 on an empty or singleton list, and in
\* every other case null with an error logged; never undefined, never throws.
C8_ElementAtNullOutside ==
  (Called("elementAt") /\ allElements(last.on).out = "ret") =>
    /\ last.res.out = "ret"
    /\ last.res.val # UndefV
    /\ IF InRange(last.arg.i)
       THEN last.res.val = NodeV(Matched[last.arg.i + 1])
       ELSE IF last.arg.i = 0
       THEN last.res.val = element(last.on).val
       ELSE last.res.val = NullV /\ last.res.fx = <<ConsoleError>>

\* s is t without its leading and trailing white space.
Spaces(k) == [i \in 1..k |-> " "]
IsTrimOf(s, t) ==
  /\ s = <<>> \/ (s[1] # " " /\ s[Len(s)] # " ")
  /\ \E i, j \in 0..Len(t) : t = Spaces(i) \o s \o Spaces(j)

RECURSIVE Rederive(_, _)
Rederive(steps, r) ==
  IF steps = <<>> \/ r.out = "throw" THEN r
  ELSE LET st == Head(steps)
       IN Rederive(Tail(steps),
                   IF st.op = "nth" THEN nth(r.val, st.i)
                   ELSE nthChild(r.val, st.i))
Fresh == Rederive(Tail(how), Ret(PageObjectGet(how[1].name)))
ReadOf(op, p) ==
  CASE op = "element" -> element(p)
    [] op = "exists" -> exists(p)
    [] OTHER -> getValue(p)

\* C10: a read of element / exists / value on a held proxy gives what the
\* proxy obtained afresh, by the same expression, gives on the current DOM.
C10_NeverStale ==
  (last.op \in {"element", "exists", "value"}) =>
    /\ Fresh.out = "ret"
    /\ last.res = ReadOf(last.op, Fresh.val)

-----------------------------------------------------------------------------
(* Properties of nth and nthChild.                                         *)

NthOf == Matched[last.arg.i + 1]
\* The receiver of the last nth / nthChild call, obtained afresh.
Receiver ==
  Rederive(SubSeq(how, 2, Len(how) - 1), Ret(PageObjectGet(how[1].name)))

\* C14: for 0 <= i < count, nth(i) returns a proxy whose element is
\* allElements[i] of the receiver, and whose exists, value, text and click
\* read and act on that element; the receiver is as it was before the call.
C14_NthIsIthElement ==
  (/\ Called("nth") /\ allElements(last.on).out = "ret"
   /\ InRange(last.arg.i)) =>
    /\ last.res.out = "ret"
    /\ px = last.res.val
    /\ px # last.on
    /\ last.on = Receiver.val
    /\ element(px) = Ret(NodeV(NthOf))
    /\ exists(px) = Ret(BoolV(TRUE))
    /\ getValue(px) = Ret(getValueForElement(NodeV(NthOf)))
    /\ text(px) = Ret(getValueForElement(NodeV(NthOf)))
    /\ click(px).out = "ret"
    /\ EventsOf(click(px).fx) =
         <<Event(ClickTable(KindOf(NthOf)), NthOf, UndefV)>>

\* nth(1) was called on a proxy with two matches, the second nested in the
\* first.
C14_Witness ==
  /\ Called("nth") /\ allElements(last.on).out = "ret"
  /\ last.arg.i = 1
  /\ Len(Matched) = 2
  /\ parent[Matched[2]] = Matched[1]
  /\ element(px) = Ret(NodeV(Matched[2]))

\* The matches of the receiver of the last call are exactly the children of
\* one parent, in order.
SimpleCase ==
  /\ allElements(last.on).out = "ret"
  /\ Matched # <<>>
  /\ \E e \in Elements : Matched = ChildSeq(e)

\* C15: when the matches are exactly the children of one parent, in order,
\* nth(i).element and nthChild(i).element are the same element, the i-th
\* match, for 0 <= i < count.
C15_NthAgreesWithNthChild ==
  (/\ last.op \in {"nth", "nthChild"}
   /\ SimpleCase
   /\ InRange(last.arg.i)) =>
    /\ nth(last.on, last.arg.i).out = "ret"
    /\ nthChild(last.on, last.arg.i).out = "ret"
    /\ element(nth(last.on, last.arg.i).val) = Ret(NodeV(NthOf))
    /\ element(nthChild(last.on, last.arg.i).val) = Ret(NodeV(NthOf))

\* nthChild(1) was called on a proxy whose two matches are the children of
\* document.body, and the proxy it returned resolves to the second.
C15_Witness ==
  /\ Called("nthChild")
  /\ SimpleCase
  /\ last.arg.i = 1
  /\ Len(Matched) = 2
  /\ element(px) = Ret(NodeV(Matched[2]))

-----------------------------------------------------------------------------
(* util.js: the poll-based wait behind PageObject.waitFor.  Time is in     *)
(* units of 30 ms.                                                         *)

\* The largest timeout a wait is given, and the latest time a wait starts.
MaxTimeout == 3
MaxStart == 1
\* The delay of a retry: doWait(cb, end, 60, resolve, reject).
RetryDelay == 2
\* The time the clock stops at: past every deadline and every timer.
MaxClock == MaxStart + MaxTimeout + RetryDelay + 1

\* new Promise((resolve, reject) => ...)
NewPromise(end) ==
  [state |-> "pending", end |-> end, resolves |-> 0, rejects |-> 0,
   checks |-> 0, at |-> 0]
\* resolve(true) / reject(e): only the first call settles the promise.
resolve(pr, now) ==
  [pr EXCEPT !.resolves = @ + 1,
             !.state = IF @ = "pending" THEN "resolved" ELSE @,
             !.at = IF pr.state = "pending" THEN now ELSE @]
reject(pr, now) ==
  [pr EXCEPT !.rejects = @ + 1,
             !.state = IF @ = "pending" THEN "rejected" ELSE @,
             !.at = IF pr.state = "pending" THEN now ELSE @]

\* The callback waitFor hands to waitForMe, for the test
\* page => page.foo.exists: it throws unless the test returns true.
cb ==
  LET test == exists(PageObjectGet("foo"))
  IN IF test.out = "throw" THEN test
     ELSE IF ~Truthy(test.val) THEN Throw("Error")
     ELSE Ret(UndefV)
Checked(pr) == [pr EXCEPT !.checks = @ + 1]

\* doWait(cb, end, timeout, resolve, reject): setTimeout(..., timeout)
doWait(w, now, timeout) ==
  [w EXCEPT !.timers = Append(@, now + timeout)]

doWaitCallback_RejectAndRetry(w, now) ==
  LET w1 == [w EXCEPT !.promise = Checked(@)] IN
  IF cb.out = "ret"
  THEN [w1 EXCEPT !.promise = resolve(@, now)]
  ELSE IF now > w.promise.end
  THEN doWait([w1 EXCEPT !.promise = reject(@, now)], now, RetryDelay)
  ELSE doWait(w1, now, RetryDelay)

\* The function doWait hands to setTimeout, run at time now.
doWaitCallback(w, now) ==
  LET w1 == [w EXCEPT !.promise = Checked(@)] IN
  IF cb.out = "ret"
  THEN [w1 EXCEPT !.promise = resolve(@, now)]
  ELSE IF now > w.promise.end
  THEN [w1 EXCEPT !.promise = reject(@, now)]
  ELSE doWait(w1, now, RetryDelay)

waitForMe_AlwaysSchedules(timeout, now) ==
  LET w == [promise |-> Checked(NewPromise(now + timeout)), timers |-> <<>>] IN
  IF cb.out = "ret"
  THEN doWait([w EXCEPT !.promise = resolve(@, now)], now, 0)
  ELSE doWait(w, now, 0)

\* waitForMe(cb, timeout), called at time now
waitForMe(timeout, now) ==
  LET w == [promise |-> Checked(NewPromise(now + timeout)), timers |-> <<>>] IN
  IF cb.out = "ret"
  THEN [w EXCEPT !.promise = resolve(@, now)]
  ELSE doWait(w, now, 0)

\* The positions in timers: a wait has no more timers pending than it has
\* units of time to schedule them in.
TimerSlots == 1..MaxClock

\* page.waitFor(page => page.foo.exists, timeout)
WaitFor(timeout) ==
  /\ promise.state = "none"
  /\ clock <= MaxStart
  /\ LET w == waitForMe(timeout, clock)
     IN promise' = w.promise /\ timers' = w.timers
  /\ UNCHANGED <<domVars, ctlVars, px, how, last, page, clock, envVars>>

\* The i-th pending timer is due, and its callback runs.
Fire(i) ==
  /\ i \in 1..Len(timers)
  /\ timers[i] <= clock
  /\ LET w == doWaitCallback(
                [promise |-> promise, timers |-> RemoveAt(timers, i)], clock)
     IN promise' = w.promise /\ timers' = w.timers
  /\ UNCHANGED <<domVars, ctlVars, px, how, last, page, clock, envVars>>

\* Time passes.
Tick ==
  /\ clock < MaxClock
  /\ clock' = clock + 1
  /\ UNCHANGED <<domVars, ctlVars, px, how, last, page, timers, promise, envVars>>

(* SpecWait: one wait for an element that the component under test renders *)
(* and removes while the wait polls.                                       *)
InitWait == InitPage({[n \in Nodes |-> Div]})
NextWait ==
  \/ Insert(1, Body)
  \/ Remove(1)
  \/ \E timeout \in 0..MaxTimeout : WaitFor(timeout)
  \/ \E i \in TimerSlots : Fire(i)
  \/ Tick
SpecWait ==
  /\ InitWait
  /\ [][NextWait]_vars
  /\ WF_vars(Tick)
  /\ WF_vars(\E i \in TimerSlots : Fire(i))

-----------------------------------------------------------------------------
(* Properties of the wait.                                                 *)

Settled == promise.state \in {"resolved", "rejected"}

\* C11: resolve and reject are together invoked exactly once per wait: not
\* at all while the promise is pending, once when it is settled, and no timer
\* is left that could invoke them again.
C11_SettledOnce ==
  /\ promise.state = "pending" => promise.resolves + promise.rejects = 0
  /\ Settled => (promise.resolves + promise.rejects = 1 /\ timers = <<>>)

\* The wait was rejected after the immediate check and two retries.
C11_Witness ==
  /\ promise.state = "rejected"
  /\ promise.rejects = 1
  /\ promise.checks >= 3

\* C12: under fair timer firing and an advancing clock a wait terminates,
\* and it is resolved only by a check made up to the deadline: when the
\* condition held at no check up to the deadline, it is rejected.
C12_WaitTerminates ==
  /\ (promise.state = "pending") ~> Settled
  /\ [](promise.state = "resolved" => promise.at <= promise.end)

\* C13: once the deadline has passed on a pending wait, the promise is not
\* resolved any more.
C13_NoResolveAfterDeadline ==
  [][(promise.state = "pending" /\ clock > promise.end)
       => promise'.state # "resolved"]_vars

-----------------------------------------------------------------------------
(* Properties of the page objects.                                         *)

Got(cls) == last.op = "get" /\ last.on.cls = cls
Name == last.arg.name
Declared == Keys(last.on.selectors)
Additional == Keys(last.on.additionalSelectors)
\* The scope a proxy of the page object of the last access is bound to.
ScopeOf ==
  IF last.on.cls = "PageO" THEN last.on.container
  ELSE PageObject_root(last.on)
RootSet == last.on.cls = "PageObject" => Truthy(PageObject_root(last.on))

\* C16: named access to a name in the `selectors` declaration or in the
\* selectors passed to the constructor yields a proxy for the entry of that
\* name, the constructor's entry when both have one.
C16_OverrideWins ==
  (/\ last.op = "get" /\ RootSet
   /\ Name \in Declared \cup Additional) =>
    /\ last.res.out = "ret"
    /\ last.res.val.root = ScopeOf
    /\ last.res.val.selector =
         IF Name \in Additional THEN last.on.additionalSelectors.m[Name]
         ELSE last.on.selectors.m[Name]

\* A PageObject whose class declares foo and whose constructor was given
\* another selector for foo was asked for foo, and for bar, which only the
\* class declares.
C16_Witness ==
  /\ Got("PageObject") /\ RootSet
  /\ Name = "bar"
  /\ Declared = {"foo", "bar"} /\ Additional = {"foo"}
  /\ last.on.selectors.m["foo"] # last.on.additionalSelectors.m["foo"]
  /\ last.res = Ret(PageSelector(last.on.selectors.m["bar"], ScopeOf))
  /\ PageGet(last.on, "foo").val.selector = last.on.additionalSelectors.m["foo"]

\* C17: after page.selectors[name] = s, the next access page[name] yields a
\* proxy that resolves s, on any page object that has a root.
C17_LiveSelectors ==
  [][(/\ last.op = "set" /\ last.res.out = "ret"
      /\ last'.op = "get" /\ last'.arg.name = last.arg.name
      /\ last'.on.cls = "PageObject" => Truthy(PageObject_root(last'.on)))
       => (last'.res.out = "ret" /\ last'.res.val.selector = last.arg.s)]_vars

\* C18: on a PageO, access to a name that is in no selector table does not
\* throw and yields the proxy for [data-testid=<name>] in the container of
\* the page; reading its element throws only when nothing matches, and gives
\* the first match otherwise.
C18_UndeclaredSynthesized ==
  (Got("PageO") /\ Name \notin Declared \cup Additional) =>
    /\ last.res = Ret(makeSelector(CssV(Css(Name)), last.on.container, 0))
    /\ s_element(last.res.val).out = "throw" =>
         Candidates(last.res.val) = <<>>
    /\ Candidates(last.res.val) # <<>> =>
         s_element(last.res.val) = Ret(NodeV(Candidates(last.res.val)[1]))

\* An undeclared name was read on a PageO whose container is given by a
\* selector, and the proxy resolves to an element in that container.
C18_Witness ==
  /\ Got("PageO") /\ Name \notin Declared \cup Additional
  /\ last.on.container.t = "css"
  /\ Candidates(px) # <<>>
  /\ s_element(px) = Ret(NodeV(Candidates(px)[1]))

\* C19: named access on a PageObject throws when the root was never
\* established or is gone, and when neither `selectors` nor constructor
\* selectors were ever given.
C19_UnconfiguredThrows ==
  (/\ Got("PageObject")
   /\ \/ ~Truthy(PageObject_root(last.on))
      \/ (last.on.selectors = UndefV
            /\ last.on.additionalSelectors = UndefV)) =>
    last.res.out = "throw"

-----------------------------------------------------------------------------
(* Properties of the forwarding get trap of the makeSelector proxy.        *)

\* What element[prop] is, with a method bound to the element.
Forwarded(n, prop) ==
  LET attr == ElementProp(n, prop)
  IN IF attr.t = "fn" THEN BoundV(attr, n) ELSE attr

\* C21: reading a property the proxy does not define, on a proxy whose
\* element resolves, returns the element's own value of the property (0,
\* false and "" included) and a method bound to the element.
C21_ForwardsElementValue ==
  (/\ Read("get")
   /\ s_element(last.on).out = "ret"
   /\ s_element(last.on).val.t = "node")
    => last.res = Ret(Forwarded(s_element(last.on).val.n, last.arg.name))

-----------------------------------------------------------------------------
(* Properties of the visibility query.                                     *)

\* C22: visible never throws; it answers true exactly when the proxy's
\* element exists and its computed display is not none, and false when the
\* element does not exist.
C22_VisibleTotal ==
  Called("visible") =>
    last.res = Ret(BoolV(Resolved(last.on) /\ Display(Target) # "none"))

-----------------------------------------------------------------------------
(* Properties of the sandbox.                                              *)

Returned(op) == last.op = op /\ last.res.out = "ret"

\* C23: when destroySandbox() has returned, after however many render()
\* calls, no sandbox root and no style element is left in the document,
\* page.sandbox is null and no component a render() call mounted is still
\* mounted.
C23_DestroyCleansUp ==
  Returned("destroySandbox") =>
    /\ world.roots = {}
    /\ ~world.styles
    /\ page.sandbox = NullV
    /\ world.mounted = {}

\* C29: destroySandbox() returns without throwing in every lifecycle state
\* (before a render, after a render, twice in a row) and leaves the page
\* object without a sandbox.
C29_DestroyAlwaysSafe ==
  last.op = "destroySandbox" =>
    (last.res.out = "ret" /\ page.sandbox = NullV)

\* C30: at most one sandbox root of the page object is in the document, and
\* a page.sandbox that is not null is that element.
C30_OneSandbox ==
  page.cls = "PageObject" =>
    /\ Cardinality(world.roots) <= 1
    /\ Truthy(page.sandbox) => world.roots = {page.sandbox.id}

-----------------------------------------------------------------------------
(* Properties of function selectors.                                       *)

\* The element the function selector of proxy p selects for the index of p,
\* where it selects one.
Selects(p) == p.index >= 0 /\ p.index < Len(Candidates(p))
Selected(p) == NodeV(Candidates(p)[p.index + 1])

\* C25: a function selector that does the indexing itself, and returns the
\* element it selected for index i bare or as a one-element list, makes
\* .element of the proxy at index i that element, for every i >= 0.
C25_FunctionDoesIndexing ==
  (/\ Read("element")
   /\ last.on.selector.t = "fn"
   /\ last.on.selector.f \in {"indexed", "single"}
   /\ Selects(last.on))
    => last.res = Ret(Selected(last.on))

-----------------------------------------------------------------------------
(* Properties of the fallback of selectAsString.                           *)

\* C26: when a CSS selector matches nothing inside the root of the proxy,
\* .element returns the root itself only at index 0 and only when the root
\* matches the selector; at every other index it throws.
C26_FallbackOnlyAtZero ==
  (OnCss /\ MatchSet(Container, last.on.selector.c) = {}) =>
    /\ last.res.out = "ret" =>
         /\ last.res.val = NodeV(Container)
         /\ Matches(last.on.selector.c, Container)
         /\ last.on.index = 0
    /\ last.on.index # 0 => last.res.out = "throw"

-----------------------------------------------------------------------------
(* Properties of the drag and drop simulations.                            *)

Dispatched(type) ==
  Cardinality({k \in 1..Len(dnd.events) : dnd.events[k].type = type})

\* C27: a drop simulation returns without throwing, with a done callback
\* or without; it dispatches dragenter, dragover and later drop; done is
\* called once per simulation and only after the drop event of the
\* simulation was dispatched.
C27_DropThenDone ==
  /\ last.op \in Drops => last.res.out = "ret"
  /\ Dispatched("dragenter") = Dispatched("dragover")
  /\ Dispatched("drop") <= Dispatched("dragover")
  /\ dnd.done <= Dispatched("drop")
  /\ dnd.pending = <<>> =>
       (Dispatched("drop") = Dispatched("dragenter")
          /\ dnd.done = Dispatched("drop"))

-----------------------------------------------------------------------------
(* Properties that relate the read queries of a PageSelector.              *)

\* C28: the read queries of the proxy the test holds, whether it comes from
\* the page object, from nthChild(i) or from nth(i), agree in every state of
\* the document: exists is true exactly when count is at least 1, and when
\* exists is true value is the first entry of values.
C28_QueriesAgree ==
  Held =>
    /\ exists(px).out = "ret"
    /\ count(px).out = "ret"
    /\ Truthy(exists(px).val) <=> count(px).val.i >= 1
    /\ Truthy(exists(px).val) =>
         /\ getValue(px).out = "ret"
         /\ values(px).out = "ret"
         /\ getValue(px).val = values(px).val.l[1]

====
